---- MODULE Spec2Model ----
(***************************************************************************)
(* Streaming answer pipeline of the chat page.                             *)
(*                                                                         *)
(*   services/chat.ts   createChatStream: fetch, read loop, line decoder,  *)
(*                      event classification, handler dispatch              *)
(*   types/chat.ts      Chat page: handleSend and its handler closures,    *)
(*                      handleStop, handleRetry, clearMessages, mode switch *)
(*   stores/chat.ts     useChatStore: per-mode histories, generating flags *)
(*                      and abort handles                                   *)
(*                                                                         *)
(* Text on the wire is a sequence of characters.  The characters of the    *)
(* markers 'event:' and 'data:' are single letters; an event name, a JSON  *)
(* punctuation mark and a JSON member ("key":value) are one character each *)
(* (a cut inside one of them is a cut inside the line, which the decoder   *)
(* cannot tell from any other).                                            *)
(***************************************************************************)
EXTENDS Integers, Sequences, FiniteSets, TLC

VARIABLES
    chatMode,         \* types/chat.ts:182  useState<'normal'|'agent'>('agent')
    inputValue,       \* types/chat.ts:171  text area content (characters)
    messages,         \* stores/chat.ts:72-73  agentMessages / normalMessages
    generating,       \* stores/chat.ts:89-90  isAgentGenerating / isNormalGenerating
    abortController,  \* stores/chat.ts:94-95  stream whose abort is stored, 0 = null
    streams,          \* one record per createChatStream call (closure + read loop)
    engine,           \* the JavaScript engine's JSON.parse error wording
    body,             \* response body still to be delivered (decoder specification)
    sent,             \* the logical lines of the response body chosen at Init
    frames,           \* number of frames the servers have sent (session specification)
    trace             \* whether the handler calls of a stream are recorded in full

vars == <<chatMode, inputValue, messages, generating, abortController,
          streams, engine, body, sent, frames, trace>>

-----------------------------------------------------------------------------
(* Bounds *)

MaxStreams == 2
MaxFrames == 1
MaxBodyLines == 2
MaxChunk == 2

Modes == {"agent", "normal"}

-----------------------------------------------------------------------------
(* Characters and strings *)

NL == "\n"

IsSpace(c) == c \in {" ", "\t", "\r", NL}

StartsWith(s, p) == Len(s) >= Len(p) /\ SubSeq(s, 1, Len(p)) = p

Slice(s, n) == SubSeq(s, n + 1, Len(s))

RECURSIVE TrimStart(_)
TrimStart(s) ==
    IF s = <<>> THEN <<>>
    ELSE IF IsSpace(Head(s)) THEN TrimStart(Tail(s)) ELSE s

RECURSIVE TrimEnd(_)
TrimEnd(s) ==
    IF s = <<>> THEN <<>>
    ELSE IF IsSpace(s[Len(s)]) THEN TrimEnd(SubSeq(s, 1, Len(s) - 1)) ELSE s

Trim(s) == TrimEnd(TrimStart(s))

\* String.prototype.split('\n'): the pieces between the newlines, the last
\* piece being what follows the last newline (possibly empty).
RECURSIVE Split(_)
Split(s) ==
    IF \E i \in 1..Len(s) : s[i] = NL
    THEN LET i == CHOOSE j \in 1..Len(s) :
                    s[j] = NL /\ \A k \in 1..(j - 1) : s[k] # NL
         IN  <<SubSeq(s, 1, i - 1)>> \o Split(SubSeq(s, i + 1, Len(s)))
    ELSE <<s>>

\* The text of a character sequence (characters joined).
RECURSIVE Join(_)
Join(s) == IF s = <<>> THEN "" ELSE Head(s) \o Join(Tail(s))

EventMarker == <<"e", "v", "e", "n", "t", ":">>
DataMarker == <<"d", "a", "t", "a", ":">>

-----------------------------------------------------------------------------
(* JSON payloads *)

F_step == "\"step\":\"thinking\""
F_parsing == "\"content\":\"parsing intent\""
F_theAnswer == "\"content\":\"The answer is \""
F_42 == "\"content\":\"42.\""
F_a == "\"content\":\"a\""
F_b == "\"content\":\"b\""
F_content7 == "\"content\":7"
F_citations == "\"citations\":[c1]"
F_citations2 == "\"citations\":[c2]"
F_original == "\"original_citations\":[o1]"
F_usage == "\"usage\":{}"
F_error == "\"error\":\"boom\""
F_message == "\"message\":\"oops\""
F_duration == "\"duration\":0.5"
F_cost == "\"cost\":1.5"
F_foo == "\"foo\":1"

Members == {F_step, F_parsing, F_theAnswer, F_42, F_a, F_b, F_content7,
            F_citations, F_citations2, F_original, F_usage, F_error,
            F_message, F_duration, F_cost, F_foo}

MemberKey(m) ==
    CASE m = F_step -> "step"
      [] m \in {F_parsing, F_theAnswer, F_42, F_a, F_b, F_content7} -> "content"
      [] m \in {F_citations, F_citations2} -> "citations"
      [] m = F_original -> "original_citations"
      [] m = F_usage -> "usage"
      [] m = F_error -> "error"
      [] m = F_message -> "message"
      [] m = F_duration -> "duration"
      [] m = F_cost -> "cost"
      [] m = F_foo -> "foo"

\* The member's value as JavaScript prints it.
MemberValue(m) ==
    CASE m = F_step -> "thinking"
      [] m = F_parsing -> "parsing intent"
      [] m = F_theAnswer -> "The answer is "
      [] m = F_42 -> "42."
      [] m = F_a -> "a"
      [] m = F_b -> "b"
      [] m = F_content7 -> "7"
      [] m = F_citations -> "c1"
      [] m = F_citations2 -> "c2"
      [] m = F_original -> "o1"
      [] m = F_usage -> "[object Object]"
      [] m = F_error -> "boom"
      [] m = F_message -> "oops"
      [] m = F_duration -> "0.5"
      [] m = F_cost -> "1.5"
      [] m = F_foo -> "1"

MemberType(m) ==
    CASE m \in {F_step, F_parsing, F_theAnswer, F_42, F_a, F_b, F_error, F_message}
            -> "string"
      [] m \in {F_content7, F_duration, F_cost, F_foo} -> "number"
      [] OTHER -> "object"

Undefined == "undefined"

NoFields == [k \in {} |-> ""]

\* A parsed JSON value: an object with its members by key, or a primitive.
EmptyObject == [kind |-> "object", fields |-> NoFields]
NumberValue == [kind |-> "number", fields |-> NoFields]

\* key in eventData (the caller has checked that eventData is an object)
HasKey(ed, key) == key \in DOMAIN ed.fields

\* eventData[key], printed; undefined when absent
Get(ed, key) == IF HasKey(ed, key) THEN MemberValue(ed.fields[key]) ELSE Undefined

TypeOf(ed, key) == IF HasKey(ed, key) THEN MemberType(ed.fields[key]) ELSE Undefined

Engines == {"v8", "other"}

EndOfInputMsg(eng) ==
    IF eng = "v8" THEN "Unexpected end of JSON input"
    ELSE "JSON.parse: unexpected end of data"

UnexpectedTokenMsg == "Unexpected token in JSON"

InOperatorMsg == "Cannot use 'in' operator"

ParseOk(v) == [ok |-> TRUE, value |-> v, msg |-> ""]
ParseFail(m) == [ok |-> FALSE, value |-> EmptyObject, msg |-> m]

WithMember(obj, m) ==
    [k \in DOMAIN obj \cup {MemberKey(m)} |-> IF k = MemberKey(m) THEN m ELSE obj[k]]

RECURSIVE ParseObject(_, _, _, _, _)
ParseObject(toks, i, st, obj, eng) ==
    IF i > Len(toks) THEN ParseFail(EndOfInputMsg(eng))
    ELSE LET t == toks[i]
             closed == IF i = Len(toks)
                       THEN ParseOk([kind |-> "object", fields |-> obj])
                       ELSE ParseFail(UnexpectedTokenMsg)
         IN  CASE st \in {"open", "member"} /\ t = "}" -> closed
               [] st \in {"open", "comma"} /\ t \in Members ->
                      ParseObject(toks, i + 1, "member", WithMember(obj, t), eng)
               [] st = "member" /\ t = "," -> ParseObject(toks, i + 1, "comma", obj, eng)
               [] OTHER -> ParseFail(UnexpectedTokenMsg)

\* JSON.parse(dataStr)
JSONParse(dataStr, eng) ==
    LET toks == SelectSeq(dataStr, LAMBDA c : ~IsSpace(c))
    IN  IF toks = <<>> THEN ParseFail(EndOfInputMsg(eng))
        ELSE IF toks[1] = "{" THEN ParseObject(toks, 2, "open", NoFields, eng)
        ELSE IF toks[1] = "42"
             THEN IF Len(toks) = 1 THEN ParseOk(NumberValue)
                  ELSE ParseFail(UnexpectedTokenMsg)
        ELSE ParseFail(UnexpectedTokenMsg)

-----------------------------------------------------------------------------
(* Event classification: services/chat.ts:84-113 *)

Null == "null"

\* eventData.error || eventData.message || 'Unknown error'
ErrorText(ed) ==
    IF HasKey(ed, "error") THEN Get(ed, "error")
    ELSE IF HasKey(ed, "message") THEN Get(ed, "message")
    ELSE "Unknown error"

\* The if/else-if chain of lines 93-102 for a tag other than 'error':
\* the handler it selects, "none" when no branch is taken, "throw" when the
\* first 'in' is applied to a value that is no object.
ClassifyMutAnswerFirst(cet, ed) ==
    IF cet = "thought" THEN "thought"
    ELSE IF ed.kind # "object" THEN "throw"
    ELSE IF cet = "answer" \/ (HasKey(ed, "content") /\ TypeOf(ed, "content") = "string")
         THEN "answer"
    ELSE IF HasKey(ed, "step") THEN "thought"
    ELSE IF cet = "rag" \/ HasKey(ed, "citations") THEN "rag"
    ELSE IF cet = "done" \/ HasKey(ed, "usage") \/ DOMAIN ed.fields = {} THEN "done"
    ELSE "none"

Classify(cet, ed) ==
    IF cet = "thought" THEN "thought"
    ELSE IF ed.kind # "object" THEN "throw"
    ELSE IF HasKey(ed, "step") THEN "thought"
    ELSE IF cet = "rag" \/ HasKey(ed, "citations") THEN "rag"
    ELSE IF cet = "answer" \/ (HasKey(ed, "content") /\ TypeOf(ed, "content") = "string")
         THEN "answer"
    ELSE IF cet = "done" \/ HasKey(ed, "usage") \/ DOMAIN ed.fields = {} THEN "done"
    ELSE "none"

\* catch (e): is the exception handed to onError (and the read loop left)?
IsBusinessError(cet, msg) ==
    cet = "error" \/ (msg # "" /\ msg # "Unexpected end of JSON input")

-----------------------------------------------------------------------------
(* Messages and the store: types/chat.ts:9-18, stores/chat.ts:72-97 *)

\* A text is a sequence of pieces of text; Join gives the string.
Text(str) == IF str = "" THEN <<>> ELSE <<str>>

UserMessage(id, content) ==
    [id |-> id, role |-> "user", content |-> content, agentSteps |-> <<>>,
     citations |-> Undefined, original_citations |-> Undefined,
     isStreaming |-> FALSE, error |-> Undefined]

AssistantMessage(id) ==
    [id |-> id, role |-> "assistant", content |-> <<>>, agentSteps |-> <<>>,
     citations |-> "", original_citations |-> Undefined,
     isStreaming |-> TRUE, error |-> Undefined]

\* The state the handlers of a stream read and write.
World == [chatMode |-> chatMode, messages |-> messages, generating |-> generating,
          abortController |-> abortController, streams |-> streams,
          trace |-> trace]

\* types/chat.ts:335: const capturedChatMode = chatMode, read by the handlers
\* of lines 366, 403, 417, 454, 462, 480 and 488.
CapturedModeMutLive(W, s) == W.chatMode

CapturedMode(W, s) == W.streams[s].mode

\* msgs.findIndex(m => m.id === id), 0 for -1
FindIndex(msgs, id) ==
    IF \E i \in 1..Len(msgs) : msgs[i].id = id
    THEN CHOOSE i \in 1..Len(msgs) :
             msgs[i].id = id /\ \A j \in 1..(i - 1) : msgs[j].id # id
    ELSE 0

HasMessage(msgs, id) == FindIndex(msgs, id) # 0

\* prev.map(msg => msg.id === id ? {...msg, content} : msg)
MapContent(msgs, id, content) ==
    [i \in 1..Len(msgs) |->
        IF msgs[i].id = id THEN [msgs[i] EXCEPT !.content = content] ELSE msgs[i]]

\* Record that handler h of stream s is invoked: the number of terminal
\* handler runs always; when calls are traced, the call itself with the
\* current event tag and the place it is made from ("data": a data line,
\* "end": line 120, "catch": line 125).
Log(W, s, from, h, ed, msg) ==
    [W EXCEPT !.streams[s].calls =
                  IF W.trace
                  THEN Append(@, [h |-> h, data |-> ed, msg |-> msg, from |-> from,
                                  tag |-> W.streams[s].cet])
                  ELSE @,
              !.streams[s].terminals =
                  IF h \in {"onDone", "onError"} THEN @ + 1 ELSE @]

UpdateMessageContentMutUpsert(W, s, content) ==
    LET m == CapturedMode(W, s)
        id == W.streams[s].msgId
    IN  IF HasMessage(W.messages[m], id)
        THEN [W EXCEPT !.messages[m] = MapContent(@, id, content)]
        ELSE [W EXCEPT !.messages[m] =
                  Append(@, [AssistantMessage(id) EXCEPT !.content = content])]

\* types/chat.ts:365-371
UpdateMessageContentMutLast(W, s, content) ==
    LET m == CapturedMode(W, s)
        n == Len(W.messages[m])
    IN  IF n = 0 THEN W ELSE [W EXCEPT !.messages[m][n].content = content]

UpdateMessageContent(W, s, content) ==
    LET m == CapturedMode(W, s)
    IN  [W EXCEPT !.messages[m] = MapContent(@, W.streams[s].msgId, content)]

OnAgentThoughtMutPrepend(W, s, data) ==
    LET m == CapturedMode(W, s)
        step == [type |-> Get(data, "step"), content |-> Get(data, "content"),
                 duration |-> Get(data, "duration"), cost |-> Get(data, "cost")]
        i == FindIndex(W.messages[m], W.streams[s].msgId)
    IN  IF i = 0 THEN W
        ELSE [W EXCEPT !.messages[m][i].agentSteps = <<step>> \o @]

\* types/chat.ts:390-414
OnAgentThought(W, s, data) ==
    LET m == CapturedMode(W, s)
        step == [type |-> Get(data, "step"), content |-> Get(data, "content"),
                 duration |-> Get(data, "duration"), cost |-> Get(data, "cost")]
        i == FindIndex(W.messages[m], W.streams[s].msgId)
    IN  IF i = 0 THEN W
        ELSE [W EXCEPT !.messages[m][i].agentSteps = Append(@, step)]

\* types/chat.ts:415-430
OnRagResult(W, s, data) ==
    LET m == CapturedMode(W, s)
        i == FindIndex(W.messages[m], W.streams[s].msgId)
    IN  IF i = 0 THEN W
        ELSE [W EXCEPT !.messages[m][i].citations = Get(data, "citations"),
                       !.messages[m][i].original_citations =
                            Get(data, "original_citations")]

\* types/chat.ts:431-441
OnAnswerChunk(W, s, data) ==
    [W EXCEPT !.streams[s].acc = @ \o Text(Get(data, "content")),
              !.streams[s].raf = TRUE]

\* types/chat.ts:461-468 and 488-494
ClearGeneratingMutHandleOnly(W, m) == [W EXCEPT !.abortController[m] = 0]

ClearGenerating(W, m) ==
    [W EXCEPT !.generating[m] = FALSE, !.abortController[m] = 0]

\* types/chat.ts:442-472
OnDoneMutNoFlush(W, s) ==
    LET m == CapturedMode(W, s)
        id == W.streams[s].msgId
        W1 == [W EXCEPT !.streams[s].raf = FALSE]
        W3 == [W1 EXCEPT !.messages[m] =
                  [i \in 1..Len(@) |->
                      IF @[i].id = id THEN [@[i] EXCEPT !.isStreaming = FALSE]
                      ELSE @[i]]]
    IN  ClearGenerating(W3, m)

OnDone(W, s) ==
    LET m == CapturedMode(W, s)
        id == W.streams[s].msgId
        acc == W.streams[s].acc
        W1 == [W EXCEPT !.streams[s].raf = FALSE]
        W2 == UpdateMessageContent(W1, s, acc)
        W3 == [W2 EXCEPT !.messages[m] =
                  [i \in 1..Len(@) |->
                      IF @[i].id = id
                      THEN [@[i] EXCEPT !.content = acc, !.isStreaming = FALSE]
                      ELSE @[i]]]
    IN  ClearGenerating(W3, m)

\* The failure string of line 483 (its Chinese wording in ASCII).
ErrorPrefix == "An error occurred, please retry: "

\* types/chat.ts:473-495
OnErrorMutKeepFlag(W, s, msg) ==
    LET m == CapturedMode(W, s)
        id == W.streams[s].msgId
        shown == IF msg = "" THEN "unknown error" ELSE msg
    IN  [W EXCEPT !.streams[s].raf = FALSE,
                  !.messages[m] =
                      [i \in 1..Len(@) |->
                          IF @[i].id = id
                          THEN [@[i] EXCEPT !.content = <<ErrorPrefix, shown>>,
                                            !.error = msg,
                                            !.isStreaming = FALSE]
                          ELSE @[i]]]

OnError(W, s, msg) ==
    LET m == CapturedMode(W, s)
        id == W.streams[s].msgId
        shown == IF msg = "" THEN "unknown error" ELSE msg
        W1 == [W EXCEPT !.streams[s].raf = FALSE]
        W2 == [W1 EXCEPT !.messages[m] =
                  [i \in 1..Len(@) |->
                      IF @[i].id = id
                      THEN [@[i] EXCEPT !.content = <<ErrorPrefix, shown>>,
                                        !.error = msg,
                                        !.isStreaming = FALSE]
                      ELSE @[i]]]
    IN  ClearGenerating(W2, m)

-----------------------------------------------------------------------------
(* The read loop of createChatStream: services/chat.ts:61-121 *)

\* line.slice(6).trim()
TagOf(line) == Join(Trim(Slice(line, 6)))

ResetTag(W, s) == [W EXCEPT !.streams[s].cet = Null]

\* catch (e), lines 106-113: a business error goes to onError and the async
\* function returns; any other exception is logged and the loop goes on.
CatchMutNoReturn(W, s, msg) ==
    IF IsBusinessError(W.streams[s].cet, msg)
    THEN OnError(Log(W, s, "data", "onError", EmptyObject, msg), s, msg)
    ELSE W

Catch(W, s, msg) ==
    IF IsBusinessError(W.streams[s].cet, msg)
    THEN [OnError(Log(W, s, "data", "onError", EmptyObject, msg), s, msg)
             EXCEPT !.streams[s].phase = "closed"]
    ELSE W

\* The handler call of lines 93-102 and what follows it in the try block.
Dispatch(W, s, ed) ==
    LET k == Classify(W.streams[s].cet, ed)
    IN  CASE k = "throw" -> Catch(W, s, InOperatorMsg)
          [] k = "thought" ->
                ResetTag(OnAgentThought(Log(W, s, "data", "onAgentThought", ed, ""), s, ed), s)
          [] k = "rag" ->
                ResetTag(OnRagResult(Log(W, s, "data", "onRagResult", ed, ""), s, ed), s)
          [] k = "answer" ->
                ResetTag(OnAnswerChunk(Log(W, s, "data", "onAnswerChunk", ed, ""), s, ed), s)
          [] k = "done" ->
                ResetTag([OnDone(Log(W, s, "data", "onDone", ed, ""), s)
                             EXCEPT !.streams[s].isDone = TRUE], s)
          [] OTHER -> ResetTag(W, s)

\* Lines 80-114: one 'data:' line.
ProcessData(W, s, dataStr, eng) ==
    LET p == JSONParse(dataStr, eng)
    IN  IF ~p.ok THEN Catch(W, s, p.msg)
        ELSE IF W.streams[s].cet = "error" THEN Catch(W, s, ErrorText(p.value))
        ELSE Dispatch(W, s, p.value)

\* Lines 74-115: the body of the for loop, for one complete line.
ProcessLine(W, s, line, eng) ==
    IF W.streams[s].phase # "open" THEN W
    ELSE IF StartsWith(line, EventMarker)
         THEN [W EXCEPT !.streams[s].cet = TagOf(line)]
    ELSE IF StartsWith(line, DataMarker)
         THEN LET dataStr == Trim(Slice(line, 5))
              IN  IF dataStr = <<>> THEN W ELSE ProcessData(W, s, dataStr, eng)
    ELSE W

RECURSIVE ProcessLines(_, _, _, _)
ProcessLines(W, s, lines, eng) ==
    IF lines = <<>> THEN W
    ELSE ProcessLines(ProcessLine(W, s, Head(lines), eng), s, Tail(lines), eng)

\* lines.pop() || ''
CarryOverMutDropped(parts) == <<>>

CarryOver(parts) == parts[Len(parts)]

\* Lines 70-115: one chunk returned by reader.read().
ProcessChunk(W, s, chunk, eng) ==
    LET parts == Split(W.streams[s].buffer \o chunk)
        lines == SubSeq(parts, 1, Len(parts) - 1)
        W1 == [W EXCEPT !.streams[s].buffer = CarryOver(parts),
                        !.streams[s].started = TRUE]
    IN  ProcessLines(W1, s, lines, eng)

\* Lines 68 and 118-121: reader.read() reports done.
EndOfStreamMutNoSynth(W, s) == [W EXCEPT !.streams[s].phase = "closed"]

EndOfStreamMutFlush(W, s) ==
    LET W0 == ProcessLine(W, s, W.streams[s].buffer, "v8")
        W1 == [W0 EXCEPT !.streams[s].phase = "closed"]
    IN  IF W0.streams[s].phase # "open" THEN W0
        ELSE IF W0.streams[s].isDone THEN W1
        ELSE OnDone(Log(W1, s, "end", "onDone", EmptyObject, ""), s)

EndOfStream(W, s) ==
    LET W1 == [W EXCEPT !.streams[s].phase = "closed"]
    IN  IF W.streams[s].isDone THEN W1
        ELSE OnDone(Log(W1, s, "end", "onDone", EmptyObject, ""), s)

\* Lines 49-59 and 123-127: the promise chain rejects with an error that is
\* no AbortError (network failure, non-success status, no body).
RejectedMutSwallowed(W, s, msg) == [W EXCEPT !.streams[s].phase = "closed"]

Rejected(W, s, msg) ==
    OnError(Log([W EXCEPT !.streams[s].phase = "closed"], s, "catch", "onError",
                EmptyObject, msg),
            s, msg)

-----------------------------------------------------------------------------
(* Wire text *)

EventLine(tag) == EventMarker \o <<" ", tag>>

DataLine(payload) == DataMarker \o <<" ">> \o payload

\* The text of a sequence of lines, each ended by a newline.
RECURSIVE Wire(_)
Wire(lines) == IF lines = <<>> THEN <<>> ELSE Head(lines) \o <<NL>> \o Wire(Tail(lines))

Obj0 == <<"{", "}">>
Obj1(a) == <<"{", a, "}">>
Obj2(a, b) == <<"{", a, ",", b, "}">>
Obj4(a, b, c, d) == <<"{", a, ",", b, ",", c, ",", d, "}">>

Tags == {"thought", "rag", "answer", "done", "error"}

\* The frames a server sends in the session specifications, one per chunk.
StepFrame == Wire(<<DataLine(Obj2(F_step, F_parsing))>>)
CitationsFrame == Wire(<<DataLine(Obj2(F_citations, F_original))>>)
DeltaA == Wire(<<DataLine(Obj1(F_a))>>)
DoneFrame == Wire(<<DataLine(Obj0)>>)

SessionFrames == {StepFrame, CitationsFrame, DeltaA, DoneFrame}

\* The lines of a response body in the decoder specification.
Payloads ==
    {Obj0, Obj2(F_step, F_parsing), Obj2(F_citations, F_original), Obj1(F_a),
     Obj1(F_b), Obj1(F_usage), Obj1(F_foo), Obj1(F_error), Obj2(F_citations2, F_a),
     Obj2(F_a, F_usage), Obj2(F_citations, F_step), Obj1(F_content7),
     <<"{">>, <<"}">>, <<"42">>, <<>>}

DecLines ==
    {EventLine(t) : t \in Tags} \cup {DataLine(p) : p \in Payloads} \cup {<<>>}

\* The untagged scenario: a reasoning step, two deltas and an empty object.
ScenarioLines ==
    <<DataLine(Obj2(F_step, F_parsing)), DataLine(Obj1(F_theAnswer)),
      DataLine(Obj1(F_42)), DataLine(Obj0)>>

\* An 'error' frame followed by a delta and a done frame.
ErrorTagLines ==
    <<EventLine("error"), DataLine(Obj1(F_error)), DataLine(Obj1(F_a)), DataLine(Obj0)>>

\* Two reasoning steps, the first with its duration and total cost.
StepsLines ==
    <<DataLine(Obj4(F_step, F_parsing, F_duration, F_cost)),
      DataLine(Obj2(F_step, F_a)), DataLine(Obj0)>>

\* A tag, a blank keep-alive data line, then an untagged delta.
KeepAliveLines == <<EventLine("rag"), DataLine(<<>>), DataLine(Obj1(F_a))>>

Scenarios == {ScenarioLines, ErrorTagLines, StepsLines, KeepAliveLines}

Bodies ==
    UNION {[1..n -> DecLines] : n \in 0..MaxBodyLines} \cup Scenarios

NetworkErrorMsg == "Failed to fetch"
HttpErrorMsg == "HTTP error! status: 500"

Inputs == {<<" ", "h", "i">>}

-----------------------------------------------------------------------------
(* Operations *)

Store(W) ==
    /\ messages' = W.messages
    /\ generating' = W.generating
    /\ abortController' = W.abortController
    /\ streams' = W.streams

NewStream(m, id) ==
    [mode |-> m, msgId |-> id, acc |-> <<>>, raf |-> FALSE, phase |-> "open",
     buffer |-> <<>>, cet |-> Null, isDone |-> FALSE, started |-> FALSE,
     calls |-> <<>>, terminals |-> 0, atCancel |-> <<>>, late |-> FALSE]

\* types/chat.ts:886-899: the user edits the text area, which is disabled
\* while the current mode is generating.
TypeInput(v) ==
    /\ ~generating[chatMode]
    /\ inputValue # v
    /\ inputValue' = v
    /\ UNCHANGED <<chatMode, messages, generating, abortController, streams,
                   engine, body, sent, frames, trace>>

\* types/chat.ts:730
SetChatMode(m) ==
    /\ chatMode # m
    /\ chatMode' = m
    /\ UNCHANGED <<inputValue, messages, generating, abortController, streams,
                   engine, body, sent, frames, trace>>

\* types/chat.ts:329: the early return of handleSend
SendIgnoredMutNoFlag(input, isGenerating) == Trim(input) = <<>>

SendIgnored(input, isGenerating) == Trim(input) = <<>> \/ isGenerating

\* types/chat.ts:328-505, with at most n streams opened in a behaviour
HandleSendUpTo(n) ==
    LET m == chatMode
        s == Len(streams) + 1
        userMessage == UserMessage(2 * s - 1, Trim(inputValue))
        assistantMessage == AssistantMessage(2 * s)
    IN  IF SendIgnored(inputValue, generating[m])
        THEN UNCHANGED vars
        ELSE /\ Len(streams) < n
             /\ messages' = [messages EXCEPT
                                ![m] = Append(Append(@, userMessage), assistantMessage)]
             /\ inputValue' = <<>>
             /\ generating' = [generating EXCEPT ![m] = TRUE]
             /\ streams' = Append(streams, NewStream(m, assistantMessage.id))
             /\ abortController' = [abortController EXCEPT ![m] = s]
             /\ UNCHANGED <<chatMode, engine, body, sent, frames, trace>>

HandleSend == HandleSendUpTo(MaxStreams)

\* services/chat.ts:129-131: controller.abort() of stream h
ContentOf(msgs, id) ==
    IF HasMessage(msgs, id) THEN msgs[FindIndex(msgs, id)].content ELSE <<>>

AbortErrorMsg == "The user aborted a request."

AbortMutReported(W, h) ==
    IF h # 0 /\ W.streams[h].phase = "open"
    THEN OnError(Log([W EXCEPT !.streams[h].phase = "aborted",
                               !.streams[h].atCancel =
                                   ContentOf(W.messages[W.streams[h].mode],
                                             W.streams[h].msgId)],
                     h, "catch", "onError", EmptyObject, AbortErrorMsg),
                 h, AbortErrorMsg)
    ELSE W

\* The read loop ends with an AbortError, which line 124 swallows; the
\* content the message has at that moment is recorded.
Abort(W, h) ==
    IF h # 0 /\ W.streams[h].phase = "open"
    THEN [W EXCEPT !.streams[h].phase = "aborted",
                   !.streams[h].atCancel =
                        ContentOf(W.messages[W.streams[h].mode], W.streams[h].msgId)]
    ELSE W

\* types/chat.ts:508-519, behind the Stop button of lines 912-919, which is
\* shown while the current mode is generating.
HandleStopMutNoClear ==
    /\ generating[chatMode]
    /\ Store(Abort(World, abortController[chatMode]))
    /\ UNCHANGED <<chatMode, inputValue, engine, body, sent, frames, trace>>

HandleStop ==
    LET m == chatMode
        h == abortController[m]
        W1 == Abort(World, h)
        W2 == ClearGenerating(W1, m)
    IN  /\ generating[m]
        /\ Store(W2)
        /\ UNCHANGED <<chatMode, inputValue, engine, body, sent, frames, trace>>

\* types/chat.ts:522-530, behind the retry button of lines 691-701, which
\* is shown in a message that has an error.
HandleRetry ==
    LET m == chatMode
        msgs == messages[m]
        users == {i \in 1..Len(msgs) : msgs[i].role = "user"}
    IN  /\ \E i \in 1..Len(msgs) : msgs[i].error \notin {Undefined, ""}
        /\ IF Len(msgs) < 2 \/ users = {}
           THEN UNCHANGED <<inputValue, messages>>
           ELSE /\ inputValue' = msgs[CHOOSE i \in users : \A j \in users : j <= i].content
                /\ messages' = [messages EXCEPT ![m] = SubSeq(msgs, 1, Len(msgs) - 2)]
        /\ UNCHANGED <<chatMode, generating, abortController, streams, engine, body, sent, frames, trace>>

\* types/chat.ts:213-219 and 878
ClearMessages ==
    /\ messages' = [messages EXCEPT ![chatMode] = <<>>]
    /\ UNCHANGED <<chatMode, inputValue, generating, abortController, streams,
                   engine, body, sent, frames, trace>>

\* Is stream s cancelled and followed by a newer stream of its mode?
Superseded(ss, s) ==
    /\ ss[s].phase = "aborted"
    /\ \E t \in (s + 1)..Len(ss) : ss[t].mode = ss[s].mode

\* types/chat.ts:436-439: the animation frame callback of stream s
RafFire(s) ==
    /\ streams[s].raf
    /\ Store([UpdateMessageContent(World, s, streams[s].acc)
                 EXCEPT !.streams[s].raf = FALSE,
                        !.streams[s].late = @ \/ Superseded(streams, s)])
    /\ UNCHANGED <<chatMode, inputValue, engine, body, sent, frames, trace>>

\* services/chat.ts:67-115: reader.read() of stream s resolves with a chunk
ReadChunk(s, chunk) ==
    /\ streams[s].phase = "open"
    /\ Store(ProcessChunk(World, s, chunk, engine))
    /\ UNCHANGED <<chatMode, inputValue, engine, sent, trace>>

\* services/chat.ts:68, 118-121
ReadDone(s) ==
    /\ streams[s].phase = "open"
    /\ Store(EndOfStream(World, s))
    /\ UNCHANGED <<chatMode, inputValue, engine, sent, trace>>

\* services/chat.ts:50-54: the response has a non-success status
HttpError(s) ==
    /\ streams[s].phase = "open"
    /\ ~streams[s].started
    /\ Store(Rejected(World, s, HttpErrorMsg))
    /\ UNCHANGED <<chatMode, inputValue, engine, body, sent, frames, trace>>

\* services/chat.ts:123-127: fetch or reader.read() rejects (network failure)
TransportFail(s) ==
    /\ streams[s].phase = "open"
    /\ Store(Rejected(World, s, NetworkErrorMsg))
    /\ UNCHANGED <<chatMode, inputValue, engine, body, sent, frames, trace>>

-----------------------------------------------------------------------------
(* The session specification: both modes, frames delivered one per chunk *)

Init ==
    /\ chatMode = "agent"
    /\ inputValue = <<>>
    /\ messages = [m \in Modes |-> <<>>]
    /\ generating = [m \in Modes |-> FALSE]
    /\ abortController = [m \in Modes |-> 0]
    /\ streams = <<>>
    /\ engine = "v8"
    /\ body = <<>>
    /\ sent = <<>>
    /\ frames = 0
    /\ trace = FALSE

ServerFrame(s) ==
    \E f \in SessionFrames :
        /\ frames < MaxFrames
        /\ frames' = frames + 1
        /\ ReadChunk(s, f)
        /\ UNCHANGED body

ServerEnd(s) == ReadDone(s) /\ UNCHANGED <<body, frames>>

NextUpTo(n) ==
    \/ \E v \in Inputs : TypeInput(v)
    \/ \E m \in Modes : SetChatMode(m)
    \/ HandleSendUpTo(n)
    \/ HandleStop
    \/ HandleRetry
    \/ ClearMessages
    \/ \E s \in 1..Len(streams) : RafFire(s)
    \/ \E s \in 1..Len(streams) : ServerFrame(s)
    \/ \E s \in 1..Len(streams) : ServerEnd(s)
    \/ \E s \in 1..Len(streams) : TransportFail(s)

Next == NextUpTo(MaxStreams)

Spec == Init /\ [][Next]_vars

\* The session specification for streams whose transport does not stay
\* open for ever: reader.read() of services/chat.ts:66 eventually reports
\* done or rejects.
TransportEnds(s) ==
    /\ s \in 1..Len(streams)
    /\ (ServerEnd(s) \/ TransportFail(s))

SpecLive ==
    Init /\ [][Next]_vars /\ \A s \in 1..MaxStreams : WF_vars(TransportEnds(s))

\* stores/chat.ts:57-97: the state the store is created with.
InitialStore ==
    [currentSession |-> Null, messages |-> <<>>,
     agentMessages |-> <<>>, normalMessages |-> <<>>,
     selectedKbIds |-> <<>>, selectedModel |-> "",
     isAgentGenerating |-> FALSE, isNormalGenerating |-> FALSE,
     agentAbortController |-> 0, normalAbortController |-> 0]

\* The store as the page sees it: the session, the legacy list and the
\* selections are not written by the chat page.
StoreState(W) ==
    [InitialStore EXCEPT !.agentMessages = W.messages["agent"],
                         !.normalMessages = W.messages["normal"],
                         !.isAgentGenerating = W.generating["agent"],
                         !.isNormalGenerating = W.generating["normal"],
                         !.agentAbortController = W.abortController["agent"],
                         !.normalAbortController = W.abortController["normal"]]

Restrict(f, keys) == [k \in DOMAIN f \cap keys |-> f[k]]

\* Without partialize the whole state is persisted, less the functions,
\* which JSON.stringify drops.
PartializeMutWholeState(state) ==
    Restrict(state, DOMAIN state \ {"agentAbortController", "normalAbortController"})

\* stores/chat.ts:102-109
Partialize(state) ==
    Restrict(state, {"currentSession", "messages", "agentMessages", "normalMessages",
                     "selectedKbIds", "selectedModel"})

\* JSON.stringify leaves out the members of a message whose value is
\* undefined, and reading a member that is not there gives undefined.
OptionalFields == {"citations", "original_citations", "error"}

StringifyMessage(msg) ==
    Restrict(msg, {k \in DOMAIN msg : k \in OptionalFields => msg[k] # Undefined})

ParseMessage(json) ==
    [k \in DOMAIN AssistantMessage(0) |-> IF k \in DOMAIN json THEN json[k] ELSE Undefined]

Stringify(snapshot) ==
    [k \in DOMAIN snapshot |->
        IF k \in {"agentMessages", "normalMessages"}
        THEN [i \in 1..Len(snapshot[k]) |-> StringifyMessage(snapshot[k][i])]
        ELSE snapshot[k]]

Parse(json) ==
    [k \in DOMAIN json |->
        IF k \in {"agentMessages", "normalMessages"}
        THEN [i \in 1..Len(json[k]) |-> ParseMessage(json[k][i])]
        ELSE json[k]]

\* What local storage holds: the store writes it at every change of state.
Persisted(W) == Stringify(Partialize(StoreState(W)))

\* The store after a reload: the initial state with the members of the
\* persisted snapshot laid over it (the default merge of persist).
Rehydrate(json) ==
    [k \in DOMAIN InitialStore |->
        IF k \in DOMAIN json THEN Parse(json)[k] ELSE InitialStore[k]]

\* The page is reloaded: the store is rebuilt from local storage, the
\* component state of types/chat.ts:171 and 182 is initial again, and the
\* streams of the old page, with their callbacks, are gone.
Reload ==
    LET state == Rehydrate(Persisted(World))
    IN  /\ messages' = [m \in Modes |->
                           IF m = "agent" THEN state.agentMessages
                           ELSE state.normalMessages]
        /\ generating' = [m \in Modes |->
                             IF m = "agent" THEN state.isAgentGenerating
                             ELSE state.isNormalGenerating]
        /\ abortController' = [m \in Modes |->
                                  IF m = "agent" THEN state.agentAbortController
                                  ELSE state.normalAbortController]
        /\ streams' = [s \in 1..Len(streams) |->
                          [streams[s] EXCEPT !.phase = "unloaded", !.raf = FALSE]]
        /\ chatMode' = "agent"
        /\ inputValue' = <<>>
        /\ UNCHANGED <<engine, body, sent, frames, trace>>

NextPersist == Next \/ Reload

SpecPersist == Init /\ [][NextPersist]_vars

\* The same with one more stream, for what takes three streams of a mode.
NextThree == NextUpTo(MaxStreams + 1)

SpecThree == Init /\ [][NextThree]_vars

-----------------------------------------------------------------------------
(* The decoder specification: one submit, whose response body is a text    *)
(* drawn at Init and delivered in chunks cut anywhere                      *)

\* The engines differ in the message of a SyntaxError at the end of the
\* input only, so a second engine is tried for the bodies that have a
\* payload cut short.
\* What the body may carry after its last line terminator: nothing, or,
\* when the connection closes early, a frame that was never terminated.
Unterminated == {DataLine(Obj0), DataLine(Obj1(F_a))}

Tails(lines) == IF Len(lines) <= 1 THEN {<<>>} \cup Unterminated ELSE {<<>>}

IsCutShort(line) ==
    LET dataStr == Trim(Slice(line, 5))
    IN  /\ StartsWith(line, DataMarker)
        /\ dataStr # <<>>
        /\ \E e1, e2 \in Engines : JSONParse(dataStr, e1) # JSONParse(dataStr, e2)

InitDec ==
    /\ chatMode = "agent"
    /\ inputValue \in Inputs
    /\ messages = [m \in Modes |-> <<>>]
    /\ generating = [m \in Modes |-> FALSE]
    /\ abortController = [m \in Modes |-> 0]
    /\ streams = <<>>
    /\ sent \in Bodies
    /\ engine \in Engines
    /\ engine # "v8" => \E i \in 1..Len(sent) : IsCutShort(sent[i])
    /\ body \in {Wire(sent) \o t : t \in Tails(sent)}
    /\ frames = 0
    /\ trace = TRUE

\* The next chunk holds the first k characters of what is left.
Deliver(k) ==
    /\ Len(streams) = 1
    /\ ReadChunk(1, SubSeq(body, 1, k))
    /\ body' = SubSeq(body, k + 1, Len(body))
    /\ UNCHANGED frames

ChunkLengths == {k \in 1..Len(body) : k <= MaxChunk \/ k = Len(body)}

EndOfBody ==
    /\ Len(streams) = 1
    /\ body = <<>>
    /\ ReadDone(1)
    /\ UNCHANGED <<body, frames>>

Paint == Len(streams) = 1 /\ RafFire(1)

BadStatus == Len(streams) = 1 /\ HttpError(1)

NextDec ==
    \/ HandleSendUpTo(1)
    \/ \E k \in ChunkLengths : Deliver(k)
    \/ EndOfBody
    \/ Paint
    \/ BadStatus

SpecDec == InitDec /\ [][NextDec]_vars

-----------------------------------------------------------------------------
(* Properties *)

Range(f) == {f[i] : i \in DOMAIN f}

\* The number of complete lines the stream has been given so far.
LinesRead == Len(sent) - Cardinality({i \in 1..Len(body) : body[i] = NL})

\* The stream as it is when fetch resolves, before any chunk.
Fresh == [World EXCEPT !.streams = <<NewStream(streams[1].mode, streams[1].msgId)>>]

\* The decoder fed the given lines one whole line per chunk.
RECURSIVE LineByLine(_, _, _)
LineByLine(W, lines, eng) ==
    IF lines = <<>> THEN W
    ELSE LineByLine(ProcessChunk(W, 1, Head(lines) \o <<NL>>, eng), Tail(lines), eng)

Reference ==
    LET R == LineByLine(Fresh, SubSeq(sent, 1, LinesRead), engine)
    IN  IF streams[1].phase = "closed" /\ R.streams[1].phase = "open"
        THEN EndOfStream(R, 1)
        ELSE R

\* The calls made for data lines, and the non-blank payloads of the data
\* lines read.
DataCalls == SelectSeq(streams[1].calls, LAMBDA c : c.from = "data" /\ c.h # "onError")

IsDataLine(line) == StartsWith(line, DataMarker) /\ Trim(Slice(line, 5)) # <<>>

DataLinesRead == SelectSeq(SubSeq(sent, 1, LinesRead), IsDataLine)

\* Is there an order-preserving assignment of the calls to data lines, each
\* call carrying the parsed payload of its line?
InLineOrder(calls, lines) ==
    \E f \in [1..Len(calls) -> 1..Len(lines)] :
        /\ \A i, j \in 1..Len(calls) : i < j => f[i] < f[j]
        /\ \A i \in 1..Len(calls) :
              LET p == JSONParse(Trim(Slice(lines[f[i]], 5)), engine)
              IN  p.ok /\ p.value = calls[i].data

WasRejected == \E i \in 1..Len(streams[1].calls) : streams[1].calls[i].from = "catch"

\* C1: whatever the cuts between chunks (inside a line, inside a marker,
\* before a newline), the handler calls made so far (handler, payload,
\* order) and the decoder's tag, done flag and accumulated answer are those
\* of the same lines fed one whole line per chunk, and the calls for data
\* lines carry the payloads of the data lines in the order of the lines.
ChunkBoundaryInvariance ==
    (Len(streams) = 1 /\ ~WasRejected) =>
        LET R == Reference.streams[1]
        IN  /\ streams[1].calls = R.calls
            /\ streams[1].cet = R.cet
            /\ streams[1].isDone = R.isDone
            /\ streams[1].acc = R.acc
            /\ streams[1].phase = R.phase
            /\ InLineOrder(DataCalls, DataLinesRead)

\* A call has been made for the first line and the second line is cut
\* inside its 'data:' marker.
CutInsideMarker ==
    /\ Len(streams) = 1
    /\ Len(streams[1].calls) = 1
    /\ streams[1].buffer = <<"d", "a", "t">>
    /\ body # <<>>

\* The texts of the deltas handed to onAnswerChunk, in call order.
RECURSIVE Deltas(_)
Deltas(calls) ==
    IF calls = <<>> THEN <<>>
    ELSE (IF Head(calls).h = "onAnswerChunk"
          THEN Text(Get(Head(calls).data, "content")) ELSE <<>>)
         \o Deltas(Tail(calls))

LastCall(s) == streams[s].calls[Len(streams[s].calls)]

\* C2: when the last handler run of a stream is onDone (for a done frame or
\* synthesized at the end of the stream), whatever the paints that happened
\* between the deltas, the assistant message is not streaming and its
\* content is the concatenation of the deltas received, in arrival order.
CompletionInvariant ==
    \A s \in 1..Len(streams) :
        (streams[s].calls # <<>> /\ LastCall(s).h = "onDone") =>
            LET msgs == messages[streams[s].mode]
                msg == msgs[FindIndex(msgs, streams[s].msgId)]
            IN  /\ HasMessage(msgs, streams[s].msgId)
                /\ ~msg.isStreaming
                /\ Join(msg.content) = Join(Deltas(streams[s].calls))

\* Two deltas then the end of the stream: the content is both deltas.
TwoDeltasThenDone ==
    /\ Len(streams) = 1
    /\ Len(streams[1].calls) = 3
    /\ streams[1].calls[1].h = "onAnswerChunk"
    /\ streams[1].calls[2].h = "onAnswerChunk"
    /\ LastCall(1).h = "onDone"
    /\ LastCall(1).from = "end"
    /\ Join(ContentOf(messages["agent"], 2)) = "ab"

\* C3: a submit while the current mode is generating changes neither the
\* message histories, nor the generating flags, nor the cancellation
\* handles, and opens no stream.
SubmitWhileGeneratingIsNoOp ==
    [][(generating[chatMode] /\ HandleSend) =>
          UNCHANGED <<messages, generating, abortController, streams>>]_vars

\* The user has typed a message while the current mode is generating.
TypedWhileGenerating ==
    /\ generating[chatMode]
    /\ Trim(inputValue) # <<>>
    /\ Len(streams) < MaxStreams

\* A stream is live: not aborted, not ended, and no terminal handler has run.
Live(s) == streams[s].phase = "open" /\ streams[s].terminals = 0

\* C4: in every state each mode has at most one live stream.
AtMostOneLivePerMode ==
    \A m \in Modes :
        Cardinality({s \in 1..Len(streams) : streams[s].mode = m /\ Live(s)}) <= 1

ContentFrozenAtCancel ==
    \A s \in 1..Len(streams) :
        (streams[s].phase = "aborted"
            /\ HasMessage(messages[streams[s].mode], streams[s].msgId)) =>
        ContentOf(messages[streams[s].mode], streams[s].msgId) = streams[s].atCancel

\* A step of the handlers of stream s: a chunk, the end of the stream, a
\* rejection, or the animation frame callback.
StreamEvent(s) == ServerFrame(s) \/ ServerEnd(s) \/ TransportFail(s) \/ RafFire(s)

\* The messages of a history other than the one with the given id.
Others(msgs, id) == SelectSeq(msgs, LAMBDA msg : msg.id # id)

OtherMode(m) == IF m = "agent" THEN "normal" ELSE "agent"

\* C8: an event of a stream submitted in one mode leaves the history, the
\* generating flag and the handle of the other mode unchanged, whatever
\* the current mode is; and the message of a stream is never in the
\* history of the other mode.
CrossModeIsolation ==
    [][\A s \in 1..Len(streams) :
          LET o == OtherMode(streams[s].mode)
          IN  /\ StreamEvent(s) =>
                    /\ messages'[o] = messages[o]
                    /\ generating'[o] = generating[o]
                    /\ abortController'[o] = abortController[o]
              /\ ~HasMessage(messages'[o], streams[s].msgId)
      ]_vars

\* Two generations, the second in the other mode: the first has ended
\* while the current mode was the other one, whose generation goes on.
EndedWhileOtherModeGenerates ==
    /\ Len(streams) = 2
    /\ streams[1].mode # streams[2].mode
    /\ chatMode = streams[2].mode
    /\ streams[1].terminals = 1
    /\ ~generating[streams[1].mode]
    /\ generating[streams[2].mode]
    /\ abortController[streams[2].mode] = 2

\* The handler named by a tag.
HandlerOfTag(tag) ==
    CASE tag = "thought" -> "onAgentThought"
      [] tag = "rag" -> "onRagResult"
      [] tag = "answer" -> "onAnswerChunk"
      [] tag = "done" -> "onDone"
      [] tag = "error" -> "onError"

\* C9: the handler called with the parsed payload of a data line that
\* stands under a recognized tag is the handler of that tag, whatever the
\* fields of the payload.
TagPriority ==
    \A s \in 1..Len(streams) :
        \A i \in 1..Len(streams[s].calls) :
            LET c == streams[s].calls[i]
            IN  (c.from = "data" /\ c.tag \in Tags /\ c.msg = "") =>
                    c.h = HandlerOfTag(c.tag)

\* The payloads that are objects, and the shape rules read off the text of
\* such a payload: the first that matches, "none" when none does.
ObjectPayloads == {p \in Payloads : Len(p) >= 2 /\ p[1] = "{" /\ p[Len(p)] = "}"}

KeysOf(p) == {MemberKey(m) : m \in Range(p) \cap Members}

HasStringContent(p) ==
    \E m \in Range(p) \cap Members : MemberKey(m) = "content" /\ MemberType(m) = "string"

ShapeHandler(p) ==
    IF "step" \in KeysOf(p) THEN "onAgentThought"
    ELSE IF "citations" \in KeysOf(p) THEN "onRagResult"
    ELSE IF HasStringContent(p) THEN "onAnswerChunk"
    ELSE IF "usage" \in KeysOf(p) \/ KeysOf(p) = {} THEN "onDone"
    ELSE "none"

PayloadOf(line) == Trim(Slice(line, 5))

IsUntaggedObjectBody ==
    \A i \in 1..Len(sent) :
        /\ StartsWith(sent[i], DataMarker)
        /\ PayloadOf(sent[i]) \in ObjectPayloads
              \cup {Obj1(F_theAnswer), Obj1(F_42)}

RECURSIVE ShapeHandlers(_)
ShapeHandlers(lines) ==
    IF lines = <<>> THEN <<>>
    ELSE (IF ShapeHandler(PayloadOf(Head(lines))) = "none" THEN <<>>
          ELSE <<ShapeHandler(PayloadOf(Head(lines)))>>)
         \o ShapeHandlers(Tail(lines))

HandlersOf(calls) == [i \in 1..Len(calls) |-> calls[i].h]

\* C10: for a body of untagged data lines whose payloads are objects, the
\* handlers called for the lines read are those of the shape rules taken
\* in the order step, citations, string content, usage or empty object;
\* and once the untagged scenario (a step with content, two deltas, an
\* empty object) has been handled, the assistant message has the one step
\* of type 'thinking', the content 'The answer is 42.' and is not
\* streaming.
ShapeFallback ==
    Len(streams) = 1 =>
        /\ IsUntaggedObjectBody =>
              HandlersOf(DataCalls) = ShapeHandlers(SubSeq(sent, 1, LinesRead))
        /\ (sent = ScenarioLines /\ streams[1].isDone) =>
              LET msg == messages["agent"][2]
              IN  /\ Len(msg.agentSteps) = 1
                  /\ msg.agentSteps[1].type = "thinking"
                  /\ msg.agentSteps[1].content = "parsing intent"
                  /\ Join(msg.content) = "The answer is 42."
                  /\ ~msg.isStreaming
                  /\ msg.error = Undefined

\* The untagged scenario has been handled up to its empty object.
ScenarioDone ==
    /\ Len(streams) = 1
    /\ sent = ScenarioLines
    /\ streams[1].isDone
    /\ HandlersOf(streams[1].calls)
          = <<"onAgentThought", "onAnswerChunk", "onAnswerChunk", "onDone">>

\* The number of calls of handler h among the calls.
Count(calls, h) == Cardinality({i \in 1..Len(calls) : calls[i].h = h})

\* C11: a data line under the tag 'error' calls onError, once, and that
\* call is the last call of the stream, whose processing has ended: the
\* lines after it, in the same chunk or not, call nothing, and no onDone
\* is synthesized.
ErrorTagEndsStream ==
    Len(streams) = 1 =>
        /\ \A i \in 1..Len(streams[1].calls) :
              LET c == streams[1].calls[i]
              IN  (c.from = "data" /\ c.tag = "error") =>
                      /\ c.h = "onError"
                      /\ i = Len(streams[1].calls)
                      /\ Count(streams[1].calls, "onError") = 1
                      /\ streams[1].phase = "closed"
        /\ (sent = ErrorTagLines /\ LinesRead >= 2) =>
              /\ HandlersOf(streams[1].calls) = <<"onError">>
              /\ streams[1].calls[1].msg = "boom"
              /\ streams[1].phase = "closed"

\* The error frame and the two frames after it came in one chunk.
FramesAfterErrorTag ==
    /\ Len(streams) = 1
    /\ sent = ErrorTagLines
    /\ LinesRead = 4
    /\ HandlersOf(streams[1].calls) = <<"onError">>

\* The messages of the exceptions JSON.parse throws.
ParseErrorMsgs == {UnexpectedTokenMsg} \cup {EndOfInputMsg(e) : e \in Engines}

\* C12: a data line whose payload does not parse is dropped: onError is
\* not called with the parser's exception.
MalformedPayloadDropped ==
    \A s \in 1..Len(streams) :
        \A i \in 1..Len(streams[s].calls) :
            LET c == streams[s].calls[i]
            IN  (c.from = "data" /\ c.h = "onError" /\ c.tag # "error") =>
                    c.msg \notin ParseErrorMsgs

\* The read loop of stream s was left because the reader reported done.
EndedNormally(s) ==
    streams[s].phase = "closed" /\ Count(streams[s].calls, "onError") = 0

FromEnd(calls) == {i \in 1..Len(calls) : calls[i].from = "end"}

DoneFromData(calls) ==
    {i \in 1..Len(calls) : calls[i].from = "data" /\ calls[i].h = "onDone"}

\* C13: when the reader reports done, onDone has been synthesized, once,
\* with an empty payload and as the last call, if no data line called
\* onDone, and not at all if one did; before the reader reports done
\* nothing is synthesized.
SynthesizedDone ==
    Len(streams) = 1 =>
        LET calls == streams[1].calls
        IN  /\ EndedNormally(1) =>
                  /\ LinesRead = Len(sent)
                  /\ IF DoneFromData(calls) = {}
                     THEN /\ FromEnd(calls) = {Len(calls)}
                          /\ calls[Len(calls)].h = "onDone"
                          /\ calls[Len(calls)].data = EmptyObject
                          /\ Count(calls, "onDone") = 1
                     ELSE FromEnd(calls) = {}
            /\ ~EndedNormally(1) => FromEnd(calls) = {}

\* The body had a reasoning step and no done frame: onDone was
\* synthesized after the step.
SynthesizedAfterStep ==
    /\ Len(streams) = 1
    /\ EndedNormally(1)
    /\ HandlersOf(streams[1].calls) = <<"onAgentThought", "onDone">>
    /\ streams[1].calls[2].from = "end"
    /\ ~streams[1].isDone

\* The stream ended with all of a non-empty body undelivered: the response
\* had a non-success status.
RefusedByStatus ==
    /\ Len(streams) = 1
    /\ sent # <<>>
    /\ body = Wire(sent)
    /\ streams[1].phase = "closed"

\* C14: after a response with a non-success status, onError has been
\* called once and no other handler; the assistant message has the
\* failure string as content, the error set and is not streaming; the
\* mode's generating flag is false and its handle null.
HttpErrorReported ==
    RefusedByStatus =>
        LET msg == messages["agent"][2]
        IN  /\ HandlersOf(streams[1].calls) = <<"onError">>
            /\ streams[1].calls[1].msg = HttpErrorMsg
            /\ msg.content = <<ErrorPrefix, HttpErrorMsg>>
            /\ msg.error = HttpErrorMsg
            /\ ~msg.isStreaming
            /\ ~generating["agent"]
            /\ abortController["agent"] = 0
            /\ Len(messages["agent"]) = 2

\* A response with a non-success status has been reported.
StatusErrorShown ==
    /\ RefusedByStatus
    /\ streams[1].terminals = 1
    /\ messages["agent"][2].error = HttpErrorMsg

\* C15: a retry in a history of at least two messages drops the last two
\* messages and itself starts a generation for the content of the last
\* user message: a stream is opened and the mode is generating.
RetryResubmits ==
    [][(Len(messages[chatMode]) >= 2 /\ Len(streams) < MaxStreams /\ HandleRetry) =>
          /\ Len(streams') = Len(streams) + 1
          /\ generating'[chatMode]
      ]_vars

\* C16: when the last handler run of the stream is onError, the assistant
\* message has the failure string for the error as content, the error's
\* message as error and is not streaming; the mode's generating flag is
\* false and its handle null; the history still has its two messages and
\* the user message is as submitted.
ErrorShown ==
    (Len(streams) = 1 /\ streams[1].calls # <<>> /\ LastCall(1).h = "onError") =>
        LET msgs == messages["agent"]
        IN  /\ Len(msgs) = 2
            /\ msgs[1] = UserMessage(1, <<"h", "i">>)
            /\ msgs[2].id = 2
            /\ msgs[2].role = "assistant"
            /\ LastCall(1).msg # ""
            /\ msgs[2].content = <<ErrorPrefix, LastCall(1).msg>>
            /\ msgs[2].error = LastCall(1).msg
            /\ ~msgs[2].isStreaming
            /\ ~generating["agent"]
            /\ abortController["agent"] = 0

\* An 'error' frame with the text 'boom' has been handled.
BoomShown ==
    /\ Len(streams) = 1
    /\ Len(sent) = 2
    /\ HandlersOf(streams[1].calls) = <<"onError">>
    /\ LastCall(1).from = "data"
    /\ messages["agent"][2].error = "boom"

\* C17: the answer text an assistant message has when onError runs for its
\* stream is still in the message afterwards.
PartialContentKept ==
    [][(/\ Len(streams) = 1
        /\ Len(streams') = 1
        /\ Count(streams'[1].calls, "onError") > Count(streams[1].calls, "onError")) =>
          Range(ContentOf(messages["agent"], 2))
              \subseteq Range(ContentOf(messages'["agent"], 2))
      ]_vars

\* C18: once an untagged data line whose payload has only an 'error' field
\* has been read as the first line of the body, onError has been called
\* with the text of that field and the processing of the stream has ended.
ErrorShapedPayloadReported ==
    (/\ Len(streams) = 1
     /\ sent # <<>>
     /\ sent[1] = DataLine(Obj1(F_error))
     /\ LinesRead >= 1) =>
        /\ HandlersOf(streams[1].calls) = <<"onError">>
        /\ streams[1].calls[1].msg = "boom"
        /\ streams[1].phase = "closed"

\* C19: in a body of untagged data lines whose payloads are objects, each
\* line read has called exactly one handler.
OneHandlerPerFrame ==
    (Len(streams) = 1 /\ IsUntaggedObjectBody) =>
        Cardinality({i \in 1..Len(streams[1].calls) : streams[1].calls[i].from = "data"})
            = LinesRead

\* C20: a call of onDone is the last call of its stream, so that the
\* terminal handlers run at most once per stream.
DoneEndsStream ==
    \A s \in 1..Len(streams) :
        /\ \A i \in 1..Len(streams[s].calls) :
              streams[s].calls[i].h = "onDone" => i = Len(streams[s].calls)
        /\ streams[s].terminals <= 1

\* The retrieval-result calls whose payload carries 'original_citations'.
WithOriginal(calls) ==
    {i \in 1..Len(calls) :
        calls[i].h = "onRagResult" /\ HasKey(calls[i].data, "original_citations")}

\* C21: the message holds the 'original_citations' list of the last
\* retrieval-result event that carried one, also after later
\* retrieval-result events that carry 'citations' only.
OriginalCitationsKept ==
    Len(streams) = 1 =>
        LET calls == streams[1].calls
            last == CHOOSE i \in WithOriginal(calls) :
                        \A j \in WithOriginal(calls) : j <= i
        IN  WithOriginal(calls) # {} =>
                messages["agent"][2].original_citations
                    = Get(calls[last].data, "original_citations")

\* The step a reasoning-step payload describes (types/chat.ts:391-397,
\* without the time stamp).
StepOf(data) ==
    [type |-> Get(data, "step"), content |-> Get(data, "content"),
     duration |-> Get(data, "duration"), cost |-> Get(data, "cost")]

ThoughtCalls(calls) == SelectSeq(calls, LAMBDA c : c.h = "onAgentThought")

\* C22: the steps of the message are the steps of the reasoning-step
\* events received so far, one per event, in arrival order (so each event
\* appends one step at the end and leaves the earlier ones alone).
StepsInArrivalOrder ==
    Len(streams) = 1 =>
        LET thoughts == ThoughtCalls(streams[1].calls)
        IN  messages["agent"][2].agentSteps
                = [i \in 1..Len(thoughts) |-> StepOf(thoughts[i].data)]

TwoStepsReceived ==
    /\ Len(streams) = 1
    /\ sent = StepsLines
    /\ Len(messages["agent"][2].agentSteps) = 2
    /\ messages["agent"][2].agentSteps[1].cost = "1.5"
    /\ messages["agent"][2].agentSteps[2].cost = Undefined
    /\ streams[1].phase = "closed"

\* The decoder fed the given lines one per chunk, with the tag reset after
\* every data line, whatever became of the line.
RECURSIVE ResetByLine(_, _, _)
ResetByLine(W, lines, eng) ==
    IF lines = <<>> THEN W
    ELSE LET W1 == ProcessChunk(W, 1, Head(lines) \o <<NL>>, eng)
         IN  ResetByLine(IF StartsWith(Head(lines), DataMarker)
                         THEN ResetTag(W1, 1) ELSE W1,
                         Tail(lines), eng)

FromData(calls) == SelectSeq(calls, LAMBDA c : c.from = "data")

\* C23: a tag classifies at most the one data line that follows it: the
\* handlers called for the lines read are those of a decoder that resets
\* the tag after every data line, dispatched, blank or undecodable.
TagAppliesToOneDataLine ==
    Len(streams) = 1 =>
        HandlersOf(FromData(streams[1].calls))
            = HandlersOf(FromData(
                  ResetByLine(Fresh, SubSeq(sent, 1, LinesRead), engine)
                      .streams[1].calls))

\* C24: handlers are called for terminated lines only: the calls made are
\* those for the lines whose terminator has been read, and when the
\* transport ends with text left in the carry-over buffer, that text calls
\* nothing and the stream completes by the synthesized done (unless a done
\* frame or an error ended it before).
UnterminatedTextNeverEmitted ==
    (Len(streams) = 1 /\ ~WasRejected) =>
        /\ streams[1].calls = Reference.streams[1].calls
        /\ Len(FromData(streams[1].calls)) <= Len(DataLinesRead)
        /\ (EndedNormally(1) /\ streams[1].buffer # <<>>) =>
              LET calls == streams[1].calls
              IN  DoneFromData(calls) = {} =>
                      /\ FromEnd(calls) = {Len(calls)}
                      /\ calls[Len(calls)].h = "onDone"
                      /\ ~messages["agent"][2].isStreaming

DoneLeftInBuffer ==
    /\ Len(streams) = 1
    /\ sent = <<DataLine(Obj1(F_a))>>
    /\ streams[1].phase = "closed"
    /\ streams[1].buffer = DataLine(Obj0)
    /\ streams[1].calls[Len(streams[1].calls)].from = "end"

\* C25: when transports do not stay open for ever, the generating flag
\* an accepted submit sets in its mode does not stay true for ever: it
\* becomes false when the stream is over (done or error delivered,
\* transport ended or failed, or cancelled), whatever else the session
\* does.
FlagEventuallyCleared == \A m \in Modes : generating[m] ~> ~generating[m]

FlagClearedAfterStream ==
    /\ Len(streams) = 2
    /\ streams[1].mode = streams[2].mode
    /\ streams[1].phase = "aborted"
    /\ streams[2].phase = "closed"
    /\ ~generating[streams[2].mode]

\* The messages of a stream's mode that carry the stream's assistant id.
MessagesOf(s) ==
    {i \in 1..Len(messages[streams[s].mode]) :
        messages[streams[s].mode][i].id = streams[s].msgId}

Reloaded ==
    \E s \in 1..Len(streams) :
        streams[s].phase # "unloaded" /\ streams'[s].phase = "unloaded"

\* C27: what is persisted has no generating flag and no abort handle, and
\* after a reload both modes have generating false and no handle while
\* both histories are the ones that were persisted, those of the moment
\* of the reload.
RestoreResetsTransientState ==
    [][Reloaded =>
          /\ DOMAIN Persisted(World) \cap
                {"isAgentGenerating", "isNormalGenerating",
                 "agentAbortController", "normalAbortController"} = {}
          /\ \A m \in Modes : ~generating'[m] /\ abortController'[m] = 0
          /\ messages' = messages
          /\ messages'["agent"] = Parse(Persisted(World)).agentMessages
          /\ messages'["normal"] = Parse(Persisted(World)).normalMessages]_vars

ReloadedWhileGenerating ==
    /\ Len(streams) >= 1
    /\ streams[1].phase = "unloaded"
    /\ streams[1].terminals = 0
    /\ streams[1].atCancel = <<>>
    /\ ~generating[streams[1].mode]
    /\ Len(messages[streams[1].mode]) = 2
    /\ messages[streams[1].mode][2].content # <<>>

\* C28: while the generating flag of a mode is false, no assistant message
\* of that mode's history is marked as streaming.
NoStreamingMessageWhenIdle ==
    \A m \in Modes :
        ~generating[m] =>
            \A i \in 1..Len(messages[m]) :
                messages[m][i].role = "assistant" => ~messages[m][i].isStreaming

\* C29: the generating flag of a mode goes from true to false, and its
\* handle to null, only in a step that is a terminal handler call of the
\* mode's current stream (the one the handle belongs to) or the cancel of
\* that stream; no event of another stream of the mode clears them.
ClearedOnlyByCurrentStream ==
    [][\A m \in Modes :
          (generating[m] /\ ~generating'[m]) =>
              LET h == abortController[m]
              IN  /\ h # 0
                  /\ abortController'[m] = 0
                  /\ \/ streams'[h].terminals > streams[h].terminals
                     \/ streams[h].phase = "open" /\ streams'[h].phase = "aborted"]_vars

\* C30: a step of the handlers of a stream leaves the length of both
\* histories and the id and role at every position as they are, and
\* changes no message but the one with the stream's assistant id in the
\* stream's mode (none if that message is gone); and a history that is
\* empty while its mode is generating stays empty as long as the flag is
\* true, the flag going false only with a terminal handler call or the
\* cancel of a stream of the mode.
HandlersKeepHistoryShape ==
    [][/\ \A s \in 1..Len(streams) :
             StreamEvent(s) =>
                 \A m \in Modes :
                     /\ Len(messages'[m]) = Len(messages[m])
                     /\ \A i \in 1..Len(messages[m]) :
                           /\ messages'[m][i].id = messages[m][i].id
                           /\ messages'[m][i].role = messages[m][i].role
                           /\ (m # streams[s].mode
                                 \/ messages[m][i].id # streams[s].msgId) =>
                                  messages'[m][i] = messages[m][i]
       /\ \A m \in Modes :
             (generating[m] /\ messages[m] = <<>>) =>
                 /\ messages'[m] = <<>>
                 /\ ~generating'[m] =>
                       \E s \in 1..Len(streams) :
                           /\ streams[s].mode = m
                           /\ \/ streams'[s].terminals > streams[s].terminals
                              \/ streams'[s].phase = "aborted"
      ]_vars

ClearedWhileGenerating ==
    \E s \in 1..Len(streams) :
        /\ streams[s].phase = "open"
        /\ streams[s].raf
        /\ abortController[streams[s].mode] = s
        /\ generating[streams[s].mode]
        /\ messages[streams[s].mode] = <<>>

====
